---- MODULE Spec2Model ----
(***************************************************************************)
(* Gladiator MCP server (src/src/index.ts, src/src/types.ts): the          *)
(* observation log, the Observe and Reflect tool handlers, deduplication,  *)
(* clustering and artifact matching.                                       *)
(*                                                                         *)
(* JavaScript strings are TLA+ strings (sequences of characters); an       *)
(* optional value is a sequence of length at most one (None, Some(v)).     *)
(***************************************************************************)
EXTENDS Integers, Sequences, FiniteSets, TLC

VARIABLES
    log,        \* observations.jsonl: the sequence of stored observation records
    clock,      \* the latest value Date.now() has returned
    call,       \* the last tool call: its arguments and the disk it ran on
    result,     \* the response of the last tool call
    clusterIn,  \* argument of the last direct clusterObservations call
    clusterOut, \* groups returned by that call
    servers     \* server processes that share the log: the position of each in its tool call

vars == <<log, clock, call, result, clusterIn, clusterOut, servers>>

\* ------------------------------------------------------------------------
\* Bounds of the model
\* ------------------------------------------------------------------------
MaxLog == 2
MaxClock == 1
NumRand == 1
WindowPrefill == 99
MaxWindowSteps == 1
MaxClusterLen == 2
MaxScoreLog == 2
MaxVoteLen == 3
MaxTwoLog == 2

\* ------------------------------------------------------------------------
\* Strings
\* ------------------------------------------------------------------------
None == <<>>
Some(v) == <<v>>
IsSome(o) == Len(o) > 0
Get(o) == o[1]

Ch(s, i) == SubSeq(s, i, i)

Min(a, b) == IF a < b THEN a ELSE b
Max(a, b) == IF a > b THEN a ELSE b

\* The characters of the model with their UTF-16 code units: runs of
\* consecutive codes, each given by the code before its first character
CharRuns ==
    << <<31, " !">>, <<43, ",-./0123456789:">>, <<62, "?@ABCDEFGHIJKLMNOPQRSTUVWXYZ">>,
       <<94, "_">>, <<96, "abcdefghijklmnopqrstuvwxyz">> >>

CodeUnit ==
    LET RunMap(run) ==
            [c \in {Ch(run[2], i) : i \in 1..Len(run[2])} |->
                run[1] + (CHOOSE i \in 1..Len(run[2]) : Ch(run[2], i) = c)]
    IN RunMap(CharRuns[1]) @@ RunMap(CharRuns[2]) @@ RunMap(CharRuns[3])
       @@ RunMap(CharRuns[4]) @@ RunMap(CharRuns[5])

UpperLetters == "ABCDEFGHIJKLMNOPQRSTUVWXYZ"
LowerLetters == "abcdefghijklmnopqrstuvwxyz"

LowerOf ==
    [c \in {Ch(UpperLetters, i) : i \in 1..26} |->
        Ch(LowerLetters, CHOOSE i \in 1..26 : Ch(UpperLetters, i) = c)]

\* String.prototype.toLowerCase
RECURSIVE ToLowerCase(_)
ToLowerCase(s) ==
    IF Len(s) = 0 THEN ""
    ELSE (IF Head(s) \in DOMAIN LowerOf THEN LowerOf[Head(s)] ELSE Head(s))
         \o ToLowerCase(Tail(s))

IsSpace(c) == c \in {" ", "\t", "\n", "\r"}

\* String.prototype.trim
RECURSIVE TrimStart(_)
TrimStart(s) ==
    IF Len(s) > 0 /\ IsSpace(Head(s)) THEN TrimStart(Tail(s)) ELSE s

RECURSIVE TrimEnd(_)
TrimEnd(s) ==
    IF Len(s) > 0 /\ IsSpace(Ch(s, Len(s)))
    THEN TrimEnd(SubSeq(s, 1, Len(s) - 1)) ELSE s

Trim(s) == TrimEnd(TrimStart(s))

\* String.prototype.includes
Includes(s, sub) ==
    \E i \in 0..(Len(s) - Len(sub)) : SubSeq(s, i + 1, i + Len(sub)) = sub

\* String.prototype.slice(0, n)
Prefix(s, n) == SubSeq(s, 1, Min(n, Len(s)))

\* Array.prototype.join
RECURSIVE Join(_, _)
Join(strs, sep) ==
    IF Len(strs) = 0 THEN ""
    ELSE IF Len(strs) = 1 THEN strs[1]
    ELSE strs[1] \o sep \o Join(Tail(strs), sep)

\* String.prototype.split(sep) for a one-character separator
RECURSIVE SplitFrom(_, _, _)
SplitFrom(s, sep, cur) ==
    IF Len(s) = 0 THEN <<cur>>
    ELSE IF Head(s) = sep THEN <<cur>> \o SplitFrom(Tail(s), sep, "")
    ELSE SplitFrom(Tail(s), sep, cur \o Head(s))

Split(s, sep) == SplitFrom(s, sep, "")

\* Decimal rendering of a natural number (template-literal interpolation)
RECURSIVE Decimal(_)
Decimal(n) ==
    IF n < 10 THEN Ch("0123456789", n + 1)
    ELSE Decimal(n \div 10) \o Ch("0123456789", (n % 10) + 1)

Range(seq) == {seq[i] : i \in 1..Len(seq)}

\* Array.prototype.slice(-n): ToIntegerOrInfinity(-n) relative to the end
SliceLast(seq, n) ==
    IF n > 0 THEN SubSeq(seq, Max(Len(seq) - n, 0) + 1, Len(seq))
    ELSE SubSeq(seq, Min(0 - n, Len(seq)) + 1, Len(seq))

\* ------------------------------------------------------------------------
\* Deduplication
\* ------------------------------------------------------------------------
HashMod == 16777216
HashMul == 31
MinSummaryLen == 20
DedupWindow == 100

\* createHash("sha256").update(text).digest("hex").slice(0, 8): a fixed
\* many-to-one function of the text into a bounded range of fingerprints
RECURSIVE Digest(_, _)
Digest(s, h) ==
    IF Len(s) = 0 THEN h
    ELSE Digest(Tail(s), (h * HashMul + CodeUnit[Head(s)]) % HashMod)

\* Variant: the summary is hashed without trimming
hashSummaryNoTrim(summary) == Digest(ToLowerCase(summary), 0)

hashSummary(summary) == Digest(Trim(ToLowerCase(summary)), 0)

\* A line of the log: a JSON object, or text JSON.parse fails on
Parses(line) == "text" \notin DOMAIN line

\* A parsed line may lack a field: reading it gives undefined
HasSummary(o) == "summary" \in DOMAIN o
HasTags(o) == "tags" \in DOMAIN o

\* readObservations(filter): the lines that parse, whatever their fields
readObservations(file, hasLimit, limit) ==
    LET obs == SelectSeq(file, Parses) IN
    IF hasLimit /\ limit # 0 THEN SliceLast(obs, limit) ELSE obs

\* Variant: the hashes of every record, not of the last count records
recentHashesAll(file, count) ==
    {hashSummary(o.summary) : o \in Range(readObservations(file, FALSE, count))}

recentHashes(file, count) ==
    {hashSummary(o.summary) : o \in Range(readObservations(file, TRUE, count))}

\* ------------------------------------------------------------------------
\* Classification
\* ------------------------------------------------------------------------
\* JavaScript truthiness of an optional string: present and not empty
Truthy(o) == IsSome(o) /\ Get(o) # ""

NoContext == [tool |-> None, before |-> None, after |-> None, error |-> None]

WordChars == "abcdefghijklmnopqrstuvwxyzABCDEFGHIJKLMNOPQRSTUVWXYZ0123456789_"
WordCharSet == {Ch(WordChars, i) : i \in 1..Len(WordChars)}

IsWordAt(s, k) == k >= 1 /\ k <= Len(s) /\ Ch(s, k) \in WordCharSet

\* /\b(w)\b/.test(s) for a word w that starts and ends with a word character
MatchesWord(s, w) ==
    \E i \in 1..(Len(s) - Len(w) + 1) :
        /\ SubSeq(s, i, i + Len(w) - 1) = w
        /\ ~IsWordAt(s, i - 1)
        /\ ~IsWordAt(s, i + Len(w))

HookWords == {"automat", "hook", "pre-tool", "post-tool", "trigger"}
AgentWords == {"agent", "subagent", "review", "audit"}

classifyArtifact(tags, context) ==
    LET tagStr == ToLowerCase(Join(tags, " ")) IN
    IF \E w \in HookWords : MatchesWord(tagStr, w) THEN "hook"
    ELSE IF \E w \in AgentWords : MatchesWord(tagStr, w) THEN "agent"
    ELSE IF Truthy(context.before) /\ Truthy(context.after) THEN "skill"
    ELSE "rule"

defaultRecommendation(summary, context) ==
    IF Truthy(context.after) THEN "Next time: " \o Get(context.after)
    ELSE IF Truthy(context.error) THEN "Avoid: " \o Get(context.error)
    ELSE "Address: " \o summary

\* ------------------------------------------------------------------------
\* Storage
\* ------------------------------------------------------------------------
\* Variant: the record is written at the head of the file
appendObservationFront(file, obs) == <<obs>> \o file

\* Variant: the file is replaced by the new line
appendObservationTruncating(file, obs) == <<obs>>

\* appendFileSync(OBS_FILE, JSON.stringify(obs) + "\n")
appendObservation(file, obs) == Append(file, obs)

\* Variant: only the first line whose id is in the set is rewritten
markProcessedFirstOnly(file, ids) ==
    [i \in 1..Len(file) |->
        IF file[i].id \in ids /\ \A j \in 1..(i - 1) : file[j].id \notin ids
        THEN [file[i] EXCEPT !.processed = TRUE]
        ELSE file[i]]

\* Variant: every line's flag is overwritten with its membership in the set
markProcessedReset(file, ids) ==
    [i \in 1..Len(file) |-> [file[i] EXCEPT !.processed = (file[i].id \in ids)]]

\* Variant: only the rewritten lines are written back
markProcessedOnlyMarked(file, ids) ==
    SelectSeq([i \in 1..Len(file) |-> [file[i] EXCEPT !.processed = TRUE]],
              LAMBDA o : o.id \in ids)

\* Variant: nothing is rewritten
markProcessedNone(file, ids) == file

\* markProcessed(ids): rewrite every line that parses and whose id is in the
\* set, keep the others as they are
markProcessed(file, ids) ==
    [i \in 1..Len(file) |->
        IF Parses(file[i]) /\ file[i].id \in ids
        THEN [file[i] EXCEPT !.processed = TRUE]
        ELSE file[i]]

\* ------------------------------------------------------------------------
\* Observe
\* ------------------------------------------------------------------------
\* Math.random().toString(16).slice(2, 6)
RandSuffixes == <<"3f9a", "c07e", "91bd", "e5a2">>

MkId(now, r) == "obs_" \o Decimal(now) \o "_" \o RandSuffixes[r]

\* ObserveInputSchema.parse: summary: z.string().min(20)
ValidObserve(req) == Len(req.summary) >= MinSummaryLen

\* Variant: any correction context is rejected, complete or not
QualityGateRejectsAnyBefore(input) == Truthy(input.context.before)

QualityGateRejects(input) ==
    Truthy(input.context.before) /\ ~Truthy(input.context.after)

MkObservation(input, now, r) ==
    [id |-> MkId(now, r),
     ts |-> Decimal(now),
     session |-> "unknown",
     summary |-> input.summary,
     context |-> input.context,
     tags |-> input.tags,
     recommendation |->
        IF IsSome(input.recommendation) THEN Get(input.recommendation)
        ELSE defaultRecommendation(input.summary, input.context),
     artifact_type |->
        IF IsSome(input.artifact_type) THEN Get(input.artifact_type)
        ELSE classifyArtifact(input.tags, input.context),
     source |-> IF IsSome(input.source) THEN Get(input.source) ELSE "manual",
     session_ref |-> input.session_ref,
     processed |-> FALSE]

Unprocessed(file) == SelectSeq(file, LAMBDA o : ~o.processed)

BoxWidth == 70
RecommendLen == 55

\* U+2026, the mark formatBox puts at the end of a line it cuts
Ellipsis == "~"

\* A content line as formatBox renders it between the borders, without the padding
BoxLine(line) ==
    IF Len(line) > BoxWidth - 4 THEN SubSeq(line, 1, BoxWidth - 5) \o Ellipsis ELSE line

\* The Recorded response: the content lines of the box, and the two counts
\* of its Backlog line
RecordedResponse(obs, allObs) ==
    LET unprocessed == Len(Unprocessed(allObs))
        content ==
            <<obs.summary,
              "Recommend (" \o obs.artifact_type \o "): "
                  \o Prefix(obs.recommendation, RecommendLen)>>
            \o (IF Len(obs.tags) > 0 THEN <<"Tags: " \o Join(obs.tags, ", ")>> ELSE <<>>)
            \o <<"Backlog: " \o Decimal(unprocessed) \o " unprocessed of "
                    \o Decimal(Len(allObs)) \o " total">>
    IN [op |-> "observe", outcome |-> "Recorded", isError |-> FALSE,
        content |-> [i \in 1..Len(content) |-> BoxLine(content[i])],
        unprocessed |-> unprocessed,
        total |-> Len(allObs)]

\* Variant: the duplicate check runs before the quality gate
handleObserveDedupFirst(file, input, now, r) ==
    IF hashSummary(input.summary) \in recentHashes(file, DedupWindow)
    THEN [file |-> file,
          result |-> [op |-> "observe", outcome |-> "Duplicate", isError |-> FALSE,
                      hash |-> hashSummary(input.summary)]]
    ELSE IF QualityGateRejects(input)
    THEN [file |-> file,
          result |-> [op |-> "observe", outcome |-> "NeedsBoth", isError |-> FALSE]]
    ELSE LET obs == MkObservation(input, now, r)
             written == appendObservation(file, obs)
         IN [file |-> written,
             result |-> RecordedResponse(obs, readObservations(written, FALSE, 0))]

\* handleObserve: the response and the log it leaves
handleObserve(file, input, now, r) ==
    IF QualityGateRejects(input)
    THEN [file |-> file,
          result |-> [op |-> "observe", outcome |-> "NeedsBoth", isError |-> FALSE]]
    ELSE IF hashSummary(input.summary) \in recentHashes(file, DedupWindow)
    THEN [file |-> file,
          result |-> [op |-> "observe", outcome |-> "Duplicate", isError |-> FALSE,
                      hash |-> hashSummary(input.summary)]]
    ELSE LET obs == MkObservation(input, now, r)
             written == appendObservation(file, obs)
         IN [file |-> written,
             result |-> RecordedResponse(obs, readObservations(written, FALSE, 0))]

\* handleObserve throws: past the quality gate, recentHashes calls
\* toLowerCase on the summary of every record of the window
ObserveThrows(file, input) ==
    /\ ~QualityGateRejects(input)
    /\ \E o \in Range(readObservations(file, TRUE, DedupWindow)) : ~HasSummary(o)

\* CallToolRequestSchema handler, tool gladiator_observe: a request the
\* schema rejects and an exception thrown by the handler both end in the
\* error response
callObserve(file, req, now, r) ==
    IF ~ValidObserve(req) \/ ObserveThrows(file, req)
    THEN [file |-> file,
          result |-> [op |-> "observe", outcome |-> "Error", isError |-> TRUE]]
    ELSE handleObserve(file, req, now, r)

\* ------------------------------------------------------------------------
\* Clustering
\* ------------------------------------------------------------------------
\* Comparison of strings by UTF-16 code units (the default of Array.sort)
RECURSIVE StrLess(_, _)
StrLess(a, b) ==
    IF Len(b) = 0 THEN FALSE
    ELSE IF Len(a) = 0 THEN TRUE
    ELSE IF CodeUnit[Head(a)] < CodeUnit[Head(b)] THEN TRUE
    ELSE IF CodeUnit[Head(a)] > CodeUnit[Head(b)] THEN FALSE
    ELSE StrLess(Tail(a), Tail(b))

\* Insert x into the sorted sequence after every element not greater than x
RECURSIVE InsertSorted(_, _)
InsertSorted(sorted, x) ==
    IF Len(sorted) = 0 THEN <<x>>
    ELSE IF StrLess(x, Head(sorted)) THEN <<x>> \o sorted
    ELSE <<Head(sorted)>> \o InsertSorted(Tail(sorted), x)

\* Array.prototype.sort() on strings (stable)
RECURSIVE SortStrings(_)
SortStrings(strs) ==
    IF Len(strs) = 0 THEN <<>>
    ELSE InsertSorted(SortStrings(SubSeq(strs, 1, Len(strs) - 1)), strs[Len(strs)])

\* [...new Set(seq)]: first occurrences, in order
RECURSIVE Dedupe(_)
Dedupe(seq) ==
    IF Len(seq) = 0 THEN <<>>
    ELSE LET rest == Dedupe(SubSeq(seq, 1, Len(seq) - 1))
             x == seq[Len(seq)]
         IN IF x \in Range(rest) THEN rest ELSE Append(rest, x)

RECURSIVE FlatMapTags(_)
FlatMapTags(obs) ==
    IF Len(obs) = 0 THEN <<>> ELSE Head(obs).tags \o FlatMapTags(Tail(obs))

\* intersection.length / union.size > 0.3 (3/10 rounds to the double 0.3)
JaccardAbove(obsTags, groupTags) ==
    /\ Cardinality(obsTags \cup groupTags) > 0
    /\ 10 * Cardinality(obsTags \cap groupTags) > 3 * Cardinality(obsTags \cup groupTags)

GroupKey(o) ==
    IF Len(o.tags) > 0 THEN Join(SortStrings(o.tags), ",") ELSE "untagged-" \o o.id

\* Index of the first group the observation merges into, 0 when there is none
FirstFit(groups, o) ==
    LET fits == {g \in 1..Len(groups) :
                    JaccardAbove(Range(o.tags), Range(Split(groups[g].key, ",")))}
    IN IF fits = {} THEN 0 ELSE CHOOSE g \in fits : \A h \in fits : g <= h

\* groups.set(key, [o]): replaces the entry of an existing key in place
MapSet(groups, key, members) ==
    IF \E g \in 1..Len(groups) : groups[g].key = key
    THEN [g \in 1..Len(groups) |->
            IF groups[g].key = key THEN [key |-> key, obs |-> members] ELSE groups[g]]
    ELSE Append(groups, [key |-> key, obs |-> members])

\* The loop of clusterObservations over the input, o.tags sorted in place
RECURSIVE BuildGroups(_, _)
BuildGroups(obs, groups) ==
    IF Len(obs) = 0 THEN groups
    ELSE LET o == [Head(obs) EXCEPT !.tags = SortStrings(Head(obs).tags)]
             key == GroupKey(o)
             g == FirstFit(groups, o)
         IN BuildGroups(Tail(obs),
                IF g # 0
                THEN [groups EXCEPT ![g].obs = Append(groups[g].obs, o)]
                ELSE MapSet(groups, key, <<o>>))

SlugChars == "abcdefghijklmnopqrstuvwxyzABCDEFGHIJKLMNOPQRSTUVWXYZ0123456789-"
SlugCharSet == {Ch(SlugChars, i) : i \in 1..Len(SlugChars)}

\* .replace(/[^a-z0-9-]/gi, "")
RECURSIVE KeepSlugChars(_)
KeepSlugChars(s) ==
    IF Len(s) = 0 THEN ""
    ELSE (IF Head(s) \in SlugCharSet THEN Head(s) ELSE "") \o KeepSlugChars(Tail(s))

SlugLen == 25
SlugTags == 2
IdSuffixLen == 4

SuggestedName(allTags, firstObs) ==
    LET slug == Prefix(KeepSlugChars(Join(Prefix(allTags, SlugTags), "-")), SlugLen)
    IN IF slug # "" THEN slug
       ELSE "unnamed-" \o SubSeq(firstObs.id, Max(Len(firstObs.id) - IdSuffixLen, 0) + 1,
                                 Len(firstObs.id))

\* Variant: of the types with the top count, the last one counted wins
MajorityTypeLastWins(groupObs) ==
    LET types == Dedupe([i \in 1..Len(groupObs) |-> groupObs[i].artifact_type])
        Count(t) == Cardinality({i \in 1..Len(groupObs) : groupObs[i].artifact_type = t})
        best == CHOOSE k \in 1..Len(types) :
                    /\ \A j \in 1..Len(types) : Count(types[j]) <= Count(types[k])
                    /\ \A j \in (k + 1)..Len(types) : Count(types[j]) < Count(types[k])
    IN types[best]

\* Majority vote: the first type, in order of first occurrence, with the top count
MajorityType(groupObs) ==
    LET types == Dedupe([i \in 1..Len(groupObs) |-> groupObs[i].artifact_type])
        Count(t) == Cardinality({i \in 1..Len(groupObs) : groupObs[i].artifact_type = t})
        best == CHOOSE k \in 1..Len(types) :
                    /\ \A j \in 1..Len(types) : Count(types[j]) <= Count(types[k])
                    /\ \A j \in 1..(k - 1) : Count(types[j]) < Count(types[k])
    IN types[best]

MkGroup(groupObs) ==
    LET allTags == Dedupe(FlatMapTags(groupObs)) IN
    [tags |-> allTags,
     observations |-> groupObs,
     artifact_type |-> MajorityType(groupObs),
     suggested_name |-> SuggestedName(allTags, groupObs[1])]

\* result.sort((a, b) => b.observations.length - a.observations.length), stable
RECURSIVE InsertBySize(_, _)
InsertBySize(sorted, g) ==
    IF Len(sorted) = 0 THEN <<g>>
    ELSE IF Len(g.observations) > Len(Head(sorted).observations) THEN <<g>> \o sorted
    ELSE <<Head(sorted)>> \o InsertBySize(Tail(sorted), g)

RECURSIVE SortBySize(_)
SortBySize(gs) ==
    IF Len(gs) = 0 THEN <<>>
    ELSE InsertBySize(SortBySize(SubSeq(gs, 1, Len(gs) - 1)), gs[Len(gs)])

clusterObservations(obs) ==
    LET groups == BuildGroups(obs, <<>>) IN
    SortBySize([g \in 1..Len(groups) |-> MkGroup(groups[g].obs)])

\* ------------------------------------------------------------------------
\* Existing artifact discovery
\* ------------------------------------------------------------------------
MinWordLen == 3

\* s.split(/\s+/): the maximal runs of non-whitespace characters (and an
\* empty string at a whitespace edge, which no caller keeps)
RECURSIVE SplitSpaceFrom(_, _)
SplitSpaceFrom(s, cur) ==
    IF Len(s) = 0 THEN <<cur>>
    ELSE IF IsSpace(Head(s))
         THEN <<cur>> \o SplitSpaceFrom(TrimStart(s), "")
    ELSE SplitSpaceFrom(Tail(s), cur \o Head(s))

SplitSpace(s) == SplitSpaceFrom(s, "")

\* .split(/\s+/).filter((w) => w.length > 3)
LongWords(s) == SelectSeq(SplitSpace(s), LAMBDA w : Len(w) > MinWordLen)

KeywordChars == "abcdefghijklmnopqrstuvwxyz0123456789_-"
KeywordCharSet == {Ch(KeywordChars, i) : i \in 1..Len(KeywordChars)}

\* .replace(/[^a-z0-9\s_-]/g, " ")
RECURSIVE BlankOthers(_)
BlankOthers(s) ==
    IF Len(s) = 0 THEN ""
    ELSE (IF Head(s) \in KeywordCharSet \/ IsSpace(Head(s)) THEN Head(s) ELSE " ")
         \o BlankOthers(Tail(s))

extractKeywords(content) == Dedupe(LongWords(BlankOthers(ToLowerCase(content))))

EndsWith(s, suffix) ==
    Len(s) >= Len(suffix) /\ SubSeq(s, Len(s) - Len(suffix) + 1, Len(s)) = suffix

StartsWith(s, prefix) == Len(s) >= Len(prefix) /\ SubSeq(s, 1, Len(prefix)) = prefix

\* file.replace(/\.[^.]+$/, ""): drop the last extension
StripExt(file) ==
    LET dots == {i \in 1..Len(file) : Ch(file, i) = "."} IN
    IF dots = {} THEN file
    ELSE LET last == CHOOSE i \in dots : \A j \in dots : j <= i IN
         IF last < Len(file) THEN SubSeq(file, 1, last - 1) ELSE file

\* The loop of scanDir over the filtered directory listing: readFileSync
\* throws on an entry that cannot be read, and the catch is outside the loop
RECURSIVE ScanEntries(_, _, _)
ScanEntries(entries, type, dir) ==
    IF Len(entries) = 0 THEN <<>>
    ELSE LET e == Head(entries) IN
         IF ~e.readable THEN <<>>
         ELSE <<[type |-> type, name |-> StripExt(e.file), path |-> dir \o "/" \o e.file,
                 keywords |-> extractKeywords(e.content)]>>
              \o ScanEntries(Tail(entries), type, dir)

\* The loop over the skills directory: a subdirectory without SKILL.md is skipped
RECURSIVE ScanSkills(_, _)
ScanSkills(entries, dir) ==
    IF Len(entries) = 0 THEN <<>>
    ELSE LET e == Head(entries) IN
         IF ~e.hasManifest THEN ScanSkills(Tail(entries), dir)
         ELSE IF ~e.readable THEN <<>>
         ELSE <<[type |-> "skill", name |-> e.file, path |-> dir \o "/" \o e.file \o "/SKILL.md",
                 keywords |-> extractKeywords(e.content)]>>
              \o ScanSkills(Tail(entries), dir)

\* disk: for each of rules, hooks, skills the directory listing (an absent
\* directory lists nothing)
discoverExistingArtifacts(disk) ==
    ScanEntries(SelectSeq(disk.rules, LAMBDA e : EndsWith(e.file, ".md")),
                "rule", "~/.claude/rules")
    \o ScanEntries(SelectSeq(disk.hooks, LAMBDA e : ~StartsWith(e.file, ".")),
                   "hook", "~/.claude/hooks")
    \o ScanSkills(disk.skills, "~/.claude/skills")

\* ------------------------------------------------------------------------
\* Corpus-aware IDF scoring
\* ------------------------------------------------------------------------
ScoreThreshold == 3
NameBonus == 5
MaxTargets == 2

RECURSIVE Gcd(_, _)
Gcd(a, b) == IF b = 0 THEN a ELSE Gcd(b, a % b)

RECURSIVE LcmUpTo(_)
LcmUpTo(n) == IF n <= 1 THEN 1 ELSE (LcmUpTo(n - 1) * n) \div Gcd(LcmUpTo(n - 1), n)

\* docFreq: the number of artifacts whose keyword list holds the word;
\* threshold: artifacts.length * 0.4, kept as the pair it is a ratio of
buildCorpusIndex(artifacts) ==
    [docFreq |-> [w \in UNION {Range(artifacts[a].keywords) : a \in 1..Len(artifacts)} |->
                    Cardinality({a \in 1..Len(artifacts) : w \in Range(artifacts[a].keywords)})],
     threshold10 |-> Len(artifacts) * 4,
     total |-> Len(artifacts)]

DocFreq(index, word) == IF word \in DOMAIN index.docFreq THEN index.docFreq[word] ELSE 0

\* Variant: words in up to half of the artifacts are kept
isRelevantUpToHalf(index, word) == 10 * DocFreq(index, word) <= 5 * index.total

\* (index.docFreq.get(word) ?? 0) <= index.threshold
isRelevant(index, word) == 10 * DocFreq(index, word) <= index.threshold10

RECURSIVE FlatMapWords(_, _)
FlatMapWords(obs, field) ==
    IF Len(obs) = 0 THEN <<>>
    ELSE LongWords(ToLowerCase(IF field = "summary" THEN Head(obs).summary
                               ELSE Head(obs).recommendation))
         \o FlatMapWords(Tail(obs), field)

GroupWords(group) ==
    Range([i \in 1..Len(group.tags) |-> ToLowerCase(group.tags[i])])
    \cup Range(FlatMapWords(group.observations, "summary"))
    \cup Range(FlatMapWords(group.observations, "recommendation"))

RECURSIVE SumOver(_, _)
SumOver(S, f) ==
    IF S = {} THEN 0
    ELSE LET x == CHOOSE y \in S : TRUE IN f[x] + SumOver(S \ {x}, f)

NameMatch(group, artifact) ==
    \E i \in 1..Len(group.tags) :
        \/ Includes(artifact.name, ToLowerCase(group.tags[i]))
        \/ Includes(ToLowerCase(group.tags[i]), artifact.name)

\* Variant: a name match adds nothing to the score
ArtifactScoreNoNameBonus(group, artifact, index, unit) ==
    LET shared == {w \in GroupWords(group) :
                     /\ isRelevant(index, w)
                     /\ w \in Range(artifact.keywords)}
    IN SumOver(shared, [w \in shared |-> unit \div DocFreq(index, w)])

\* The score of an artifact for a group, in units of 1 / unit
ArtifactScore(group, artifact, index, unit) ==
    LET shared == {w \in GroupWords(group) :
                     /\ isRelevant(index, w)
                     /\ w \in Range(artifact.keywords)}
    IN SumOver(shared, [w \in shared |-> unit \div DocFreq(index, w)])
       + (IF NameMatch(group, artifact) THEN NameBonus * unit ELSE 0)

\* .sort((a, b) => b.score - a.score), stable
RECURSIVE InsertByScore(_, _)
InsertByScore(sorted, s) ==
    IF Len(sorted) = 0 THEN <<s>>
    ELSE IF s.score > Head(sorted).score THEN <<s>> \o sorted
    ELSE <<Head(sorted)>> \o InsertByScore(Tail(sorted), s)

RECURSIVE SortByScore(_)
SortByScore(ss) ==
    IF Len(ss) = 0 THEN <<>>
    ELSE InsertByScore(SortByScore(SubSeq(ss, 1, Len(ss) - 1)), ss[Len(ss)])

\* Variant: the qualifying artifacts are cut to two without sorting
findOverlappingArtifactsUnsorted(group, existing, index) ==
    LET unit == LcmUpTo(Len(existing))
        scored == [a \in 1..Len(existing) |->
                     [artifact |-> existing[a],
                      score |-> ArtifactScore(group, existing[a], index, unit)]]
        kept == SelectSeq(scored, LAMBDA s : s.score >= ScoreThreshold * unit)
        top == Prefix(kept, MaxTargets)
    IN [i \in 1..Len(top) |-> top[i].artifact]

findOverlappingArtifacts(group, existing, index) ==
    LET unit == LcmUpTo(Len(existing))
        scored == [a \in 1..Len(existing) |->
                     [artifact |-> existing[a],
                      score |-> ArtifactScore(group, existing[a], index, unit)]]
        kept == SelectSeq(scored, LAMBDA s : s.score >= ScoreThreshold * unit)
        top == Prefix(SortByScore(kept), MaxTargets)
    IN [i \in 1..Len(top) |-> top[i].artifact]

\* ------------------------------------------------------------------------
\* Reflect
\* ------------------------------------------------------------------------
DefaultLimit == 50

\* A field the record lacks is undefined, and JSON.stringify leaves it out
summarizeObservation(o) ==
    [f \in DOMAIN o \cap {"id", "ts", "summary", "recommendation", "artifact_type",
                          "context", "tags", "processed"} |-> o[f]]

Summaries(obs) == [i \in 1..Len(obs) |-> summarizeObservation(obs[i])]

\* byType: artifact type -> number of records of that type
ByType(allObs) ==
    [t \in {allObs[i].artifact_type : i \in 1..Len(allObs)} |->
        Cardinality({i \in 1..Len(allObs) : allObs[i].artifact_type = t})]

QueryMatches(o, q) ==
    \/ Includes(ToLowerCase(o.summary), q)
    \/ \E i \in 1..Len(o.tags) : Includes(ToLowerCase(o.tags[i]), q)
    \/ Includes(ToLowerCase(o.recommendation), q)
    \/ (IsSome(o.context.error) /\ Includes(ToLowerCase(Get(o.context.error)), q))
    \/ Includes(ToLowerCase(o.source), q)
    \/ (IsSome(o.session_ref) /\ Includes(ToLowerCase(Get(o.session_ref)), q))

\* Variant: the observations a search returns are marked processed
handleReflectQueryMarks(file, allObs, query, limit) ==
    LET q == ToLowerCase(query)
        matching == SliceLast(SelectSeq(allObs, LAMBDA o : QueryMatches(o, q)), limit)
    IN [file |-> markProcessed(file, {matching[i].id : i \in 1..Len(matching)}),
        result |-> [op |-> "reflect", outcome |-> "Found", isError |-> FALSE,
                    query |-> query,
                    matching_observations |-> Len(matching),
                    observations |-> Summaries(matching)]]

handleReflectQuery(file, allObs, query, limit) ==
    LET q == ToLowerCase(query)
        matching == SliceLast(SelectSeq(allObs, LAMBDA o : QueryMatches(o, q)), limit)
    IN [file |-> file,
        result |-> [op |-> "reflect", outcome |-> "Found", isError |-> FALSE,
                    query |-> query,
                    matching_observations |-> Len(matching),
                    observations |-> Summaries(matching)]]

handleReflectStats(file, allObs, byType) ==
    [file |-> file,
     result |-> [op |-> "reflect", outcome |-> "Stats", isError |-> FALSE,
                 total_observations |-> Len(allObs),
                 unprocessed |-> 0,
                 processed |-> Len(allObs),
                 by_artifact_type |-> byType,
                 recent_observations |-> Summaries(SliceLast(allObs, 5))]]

\* Variant: a group is an update whenever any artifact exists
handleReflectClusterAnyArtifact(file, unprocessed, byType, limit, disk) ==
    LET limited == SliceLast(unprocessed, limit)
        groups == clusterObservations(limited)
        existing == discoverExistingArtifacts(disk)
        corpusIndex == buildCorpusIndex(existing)
        written == markProcessed(file, {limited[i].id : i \in 1..Len(limited)})
        Annotated(g) ==
            LET overlaps == findOverlappingArtifacts(g, existing, corpusIndex) IN
            [suggested_name |-> g.suggested_name,
             artifact_type |-> g.artifact_type,
             tags |-> g.tags,
             action |-> IF Len(existing) > 0 THEN "update" ELSE "create",
             update_targets |-> [i \in 1..Len(overlaps) |->
                                    [type |-> overlaps[i].type, name |-> overlaps[i].name,
                                     path |-> overlaps[i].path]],
             observations |-> Summaries(g.observations)]
    IN [file |-> written,
        result |-> [op |-> "reflect", outcome |-> "Reflected", isError |-> FALSE,
                    observations_analyzed |-> Len(limited),
                    groups_found |-> Len(groups),
                    existing_artifacts_scanned |-> Len(existing),
                    by_artifact_type |-> byType,
                    groups |-> [g \in 1..Len(groups) |-> Annotated(groups[g])]]]

handleReflectCluster(file, unprocessed, byType, limit, disk) ==
    LET limited == SliceLast(unprocessed, limit)
        groups == clusterObservations(limited)
        existing == discoverExistingArtifacts(disk)
        corpusIndex == buildCorpusIndex(existing)
        written == markProcessed(file, {limited[i].id : i \in 1..Len(limited)})
        Annotated(g) ==
            LET overlaps == findOverlappingArtifacts(g, existing, corpusIndex) IN
            [suggested_name |-> g.suggested_name,
             artifact_type |-> g.artifact_type,
             tags |-> g.tags,
             action |-> IF Len(overlaps) > 0 THEN "update" ELSE "create",
             update_targets |-> [i \in 1..Len(overlaps) |->
                                    [type |-> overlaps[i].type, name |-> overlaps[i].name,
                                     path |-> overlaps[i].path]],
             observations |-> Summaries(g.observations)]
    IN [file |-> written,
        result |-> [op |-> "reflect", outcome |-> "Reflected", isError |-> FALSE,
                    observations_analyzed |-> Len(limited),
                    groups_found |-> Len(groups),
                    existing_artifacts_scanned |-> Len(existing),
                    by_artifact_type |-> byType,
                    groups |-> [g \in 1..Len(groups) |-> Annotated(groups[g])]]]

\* Variant: no statistics branch, an empty backlog is clustered as well
handleReflectNoStats(file, input, disk) ==
    LET allObs == readObservations(file, FALSE, 0)
        unprocessed == Unprocessed(allObs)
    IN IF Truthy(input.query)
       THEN handleReflectQuery(file, allObs, Get(input.query), input.limit)
       ELSE handleReflectCluster(file, unprocessed, ByType(allObs), input.limit, disk)

handleReflect(file, input, disk) ==
    LET allObs == readObservations(file, FALSE, 0)
        unprocessed == Unprocessed(allObs)
    IN IF Truthy(input.query)
       THEN handleReflectQuery(file, allObs, Get(input.query), input.limit)
       ELSE IF Len(unprocessed) = 0
       THEN handleReflectStats(file, allObs, ByType(allObs))
       ELSE handleReflectCluster(file, unprocessed, ByType(allObs), input.limit, disk)

\* limited.map((o) => o.id): the ids handleReflectCluster passes to markProcessed
LimitedIds(file, limit) ==
    LET limited == SliceLast(Unprocessed(readObservations(file, FALSE, 0)), limit)
    IN {limited[i].id : i \in 1..Len(limited)}

\* Where handleReflect throws, "none" when it returns: in the filter of
\* handleReflectQuery (toLowerCase of a missing summary, some of missing
\* tags), in clusterObservations (length of missing tags), or in
\* findOverlappingArtifacts (toLowerCase of a missing summary), which runs
\* after markProcessed
ReflectThrows(file, input) ==
    LET allObs == readObservations(file, FALSE, 0)
        unprocessed == Unprocessed(allObs)
        limited == SliceLast(unprocessed, input.limit)
    IN IF Truthy(input.query)
       THEN IF \E o \in Range(allObs) :
                  \/ ~HasSummary(o)
                  \/ /\ ~HasTags(o)
                     /\ ~Includes(ToLowerCase(o.summary), ToLowerCase(Get(input.query)))
            THEN "query" ELSE "none"
       ELSE IF Len(unprocessed) = 0 THEN "none"
       ELSE IF \E o \in Range(limited) : ~HasTags(o) THEN "cluster"
       ELSE IF /\ \E o \in Range(limited) : ~HasSummary(o)
               /\ LET groups == clusterObservations(limited) IN
                  \E g \in 1..Len(groups) :
                      \E o \in Range(groups[g].observations) : ~HasSummary(o)
       THEN "score" ELSE "none"

\* CallToolRequestSchema handler, tool gladiator_reflect; ReflectInputSchema
\* gives an omitted limit its default; an exception thrown by the handler
\* ends in the error response and leaves the log as the handler had written it
callReflect(file, req, disk) ==
    LET input == [query |-> req.query,
                  limit |-> IF IsSome(req.limit) THEN Get(req.limit) ELSE DefaultLimit]
        thrown == ReflectThrows(file, input)
        limited == SliceLast(Unprocessed(readObservations(file, FALSE, 0)), input.limit)
    IN IF thrown = "none" THEN handleReflect(file, input, disk)
       ELSE [file |-> IF thrown = "score"
                      THEN markProcessed(file, {limited[i].id : i \in 1..Len(limited)})
                      ELSE file,
             result |-> [op |-> "reflect", outcome |-> "Error", isError |-> TRUE]]

\* ------------------------------------------------------------------------
\* Requests and environments of the model
\* ------------------------------------------------------------------------
Req(summary, context, tags) ==
    [summary |-> summary, context |-> context, tags |-> tags,
     recommendation |-> None, artifact_type |-> None, source |-> None,
     session_ref |-> None]

Ctx(before, after) == [NoContext EXCEPT !.before = before, !.after = after]

SumRename == "use git mv when renaming"
SumHistory == "check git history before edit"
SumQuoting == "quote bash args with spaces"
SumShort == "too short a summary"

ObserveRequests ==
    { Req(SumRename, NoContext, <<"git", "rename">>),
      Req(SumHistory, NoContext, <<"git", "history">>),
      Req(SumQuoting, Ctx(Some("echo $x"), Some("echo \"$x\"")), <<"bash", "quoting">>),
      Req(SumHistory, Ctx(Some("git log"), None), <<"git", "history">>),
      Req(SumShort, NoContext, <<"git">>) }

File(name, content) == [file |-> name, content |-> content, readable |-> TRUE, hasManifest |-> TRUE]

EmptyDisk == [rules |-> <<>>, hooks |-> <<>>, skills |-> <<>>]

GitDisk ==
    [rules |-> <<File("git.md", "Prefer git mv for renames")>>,
     hooks |-> <<File("lint.sh", "lint before commit")>>,
     skills |-> <<>>]

ReflectCalls ==
    { [req |-> [query |-> None, limit |-> None], disk |-> GitDisk],
      [req |-> [query |-> None, limit |-> Some(1)], disk |-> EmptyDisk],
      [req |-> [query |-> Some(""), limit |-> None], disk |-> EmptyDisk],
      [req |-> [query |-> Some("GIT"), limit |-> Some(1)], disk |-> EmptyDisk] }

\* ------------------------------------------------------------------------
\* The server: one tool call at a time, each run to completion
\* ------------------------------------------------------------------------
NoCall == [tool |-> "none"]
NoResult == [op |-> "none", outcome |-> "none", isError |-> FALSE]

\* One server process owns the log: no call is ever under way between two steps
NoServers == <<>>

Init ==
    /\ log = <<>>
    /\ clock = 0
    /\ call = NoCall
    /\ result = NoResult
    /\ clusterIn = <<>>
    /\ clusterOut = <<>>
    /\ servers = NoServers

\* A gladiator_observe call: Date.now() does not go back, Math.random() is
\* any suffix; only a recorded observation reads them
Observe ==
    \E req \in ObserveRequests :
        LET probe == callObserve(log, req, clock, 1) IN
        IF probe.result.outcome # "Recorded"
        THEN /\ log' = probe.file
             /\ call' = [tool |-> "observe", req |-> req]
             /\ result' = probe.result
             /\ UNCHANGED <<clock, clusterIn, clusterOut, servers>>
        ELSE \E now \in clock..Min(clock + 1, MaxClock), r \in 1..NumRand :
                LET out == callObserve(log, req, now, r) IN
                /\ Len(log) < MaxLog
                /\ log' = out.file
                /\ clock' = now
                /\ call' = [tool |-> "observe", req |-> req]
                /\ result' = out.result
                /\ UNCHANGED <<clusterIn, clusterOut, servers>>

\* A gladiator_reflect call
ReflectWith(c) ==
    LET out == callReflect(log, c.req, c.disk) IN
    /\ log' = out.file
    /\ call' = [tool |-> "reflect", req |-> c.req, disk |-> c.disk]
    /\ result' = out.result
    /\ UNCHANGED <<clock, clusterIn, clusterOut, servers>>

Reflect == \E c \in ReflectCalls : ReflectWith(c)

Next == Observe \/ Reflect

Spec == Init /\ [][Next]_vars

\* ------------------------------------------------------------------------
\* The deduplication window: a server started on a log it wrote earlier
\* ------------------------------------------------------------------------
SumRetry == "retry a? flaky build"
SumRetryVariant == "  Retry A? FLAKY Build "
SumRetryCollide == "retry b  flaky build"
SumLint == "run the linter before commit"

\* Summaries with pairwise different fingerprints
Fresh(k) ==
    "fresh observation " \o Decimal(k \div 100) \o Decimal((k \div 10) % 10) \o Decimal(k % 10)

\* The log after recording SumRetry and then n fresh observations, one a millisecond
Prefilled(n) ==
    [i \in 1..(n + 1) |->
        MkObservation(Req(IF i = 1 THEN SumRetry ELSE Fresh(i - 1), NoContext, <<>>), i - 1, 1)]

FullRequest ==
    [summary |-> SumLint,
     context |-> [tool |-> Some("Bash"), before |-> Some("eslint ."), after |-> None,
                  error |-> Some("exit 1")],
     tags |-> <<"hook", "lint">>,
     recommendation |-> Some("lint first"), artifact_type |-> Some("hook"),
     source |-> Some("session"), session_ref |-> Some("proj/abc")]

WindowRequests ==
    { Req(SumRetry, NoContext, <<>>),
      Req(SumRetryVariant, NoContext, <<"retry">>),
      Req(SumRetryCollide, NoContext, <<>>),
      Req(Fresh(WindowPrefill + 1), NoContext, <<>>),
      Req(SumRetry, Ctx(Some("rerun"), None), <<>>),
      Req(SumLint, Ctx(Some(""), None), <<>>),
      Req(SumLint, Ctx(Some("eslint ."), Some("")), <<>>),
      FullRequest,
      [FullRequest EXCEPT !.context.after = Some("eslint --fix .")],
      Req(SumShort, Ctx(Some("rerun"), None), <<>>) }

InitWindow ==
    /\ log \in {Prefilled(WindowPrefill), Prefilled(WindowPrefill + 1)}
    /\ clock = Len(log) - 1
    /\ call = NoCall
    /\ result = NoResult
    /\ clusterIn = <<>>
    /\ clusterOut = <<>>
    /\ servers = NoServers

\* A gladiator_observe call within one millisecond and with one random
\* suffix: the outcome of handleObserve reads neither
ObserveWindow ==
    \E req \in WindowRequests :
        LET out == callObserve(log, req, clock, 1) IN
        /\ out.result.outcome = "Recorded" => Len(log) < WindowPrefill + 2 + MaxWindowSteps
        /\ log' = out.file
        /\ call' = [tool |-> "observe", req |-> req]
        /\ result' = out.result
        /\ UNCHANGED <<clock, clusterIn, clusterOut, servers>>

NextWindow == ObserveWindow

SpecWindow == InitWindow /\ [][NextWindow]_vars

\* ------------------------------------------------------------------------
\* clusterObservations on its own
\* ------------------------------------------------------------------------
TagLists ==
    { <<"git", "rename">>, <<"git", "history">>, <<"bash", "quoting">>, <<>>,
      <<"a", "b", "c", "d", "e", "f">>, <<"d", "e", "f", "g", "h", "i", "j">>,
      <<"git,rename">>, <<"git">>, <<"untagged-obs_1_3f9a">> }

\* Unprocessed observations as Observe records them, one a millisecond
ClusterInputs ==
    UNION {
        { [i \in 1..n |-> MkObservation(Req(Fresh(i), NoContext, tl[i]), i, 1)] :
            tl \in [1..n -> TagLists] } : n \in 0..MaxClusterLen }

InitCluster ==
    /\ log = <<>>
    /\ clock = 0
    /\ call = NoCall
    /\ result = NoResult
    /\ clusterIn \in ClusterInputs
    /\ clusterOut = <<>>
    /\ servers = NoServers

Cluster ==
    /\ call = NoCall
    /\ call' = [tool |-> "cluster"]
    /\ clusterOut' = clusterObservations(clusterIn)
    /\ UNCHANGED <<log, clock, result, clusterIn, servers>>

NextCluster == Cluster

SpecCluster == InitCluster /\ [][NextCluster]_vars

\* ------------------------------------------------------------------------
\* Reflect over existing artifacts: a server started on a log it wrote earlier
\* ------------------------------------------------------------------------
SumContext == "edit needs disambiguation context"
SumImports == "disambiguation for import edits"

ScoreRequests ==
    { Req(SumContext, NoContext, <<"edit", "disambiguation">>),
      Req(SumImports, NoContext, <<"edit", "imports">>),
      Req(SumQuoting, NoContext, <<"bash", "quoting">>) }

\* The log after recording up to MaxScoreLog different requests, one a millisecond
ScoreLogs ==
    UNION {
        { [i \in 1..n |-> MkObservation(rs[i], i - 1, 1)] :
            rs \in {f \in [1..n -> ScoreRequests] :
                       \A i, j \in 1..n : i # j => f[i] # f[j]} } :
        n \in 1..MaxScoreLog }

AvoidRule == File("avoid.md", "disambiguation needs import context")

\* One rule whose content shares the rare token with the observations
OneRuleDisk ==
    [rules |-> <<File("notes.md", "disambiguation matters")>>,
     hooks |-> <<>>, skills |-> <<>>]

\* One rule whose name is a tag of the observations
NamedRuleDisk ==
    [rules |-> <<File("disambiguation.md", "disambiguation notes")>>,
     hooks |-> <<>>, skills |-> <<>>]

ThreeDisk ==
    [rules |-> <<AvoidRule, File("style.md", "prefer short lines")>>,
     hooks |-> <<File("lint.sh", "lint before commit")>>,
     skills |-> <<>>]

\* Ten artifacts: "disambiguation" is in 1, "edit" in 4, "context" in 5
TenDisk ==
    [rules |-> <<AvoidRule,
                 File("edit.md", "edit context carefully"),
                 File("style.md", "edit context style"),
                 File("tests.md", "edit context tests"),
                 File("naming.md", "context naming style")>>,
     hooks |-> <<File("edit-check", "edit hook runs lint"),
                 File("lint.sh", "lint before commit"),
                 File("format.sh", "format before commit")>>,
     skills |-> <<File("disambiguation", "choose between similar names"),
                  File("review", "review then merge")>>]

ScoreDisks == {EmptyDisk, OneRuleDisk, NamedRuleDisk, ThreeDisk, TenDisk}

ScoreCalls ==
    { [req |-> [query |-> None, limit |-> l], disk |-> d] :
        l \in {None, Some(1)}, d \in ScoreDisks }

InitScore ==
    /\ log \in ScoreLogs
    /\ clock = Len(log) - 1
    /\ call = NoCall
    /\ result = NoResult
    /\ clusterIn = <<>>
    /\ clusterOut = <<>>
    /\ servers = NoServers

ReflectScore == \E c \in ScoreCalls : ReflectWith(c)

NextScore == ReflectScore

SpecScore == InitScore /\ [][NextScore]_vars

\* ------------------------------------------------------------------------
\* Reflect with the limits the input schema accepts
\* ------------------------------------------------------------------------
Limits == {None, Some(0), Some(1), Some(2), Some(-1)}

LimitCalls ==
    { [req |-> [query |-> q, limit |-> l], disk |-> EmptyDisk] :
        q \in {None, Some("EDIT")}, l \in Limits }

ReflectLimit == \E c \in LimitCalls : ReflectWith(c)

LimitRequests ==
    ScoreRequests
    \cup { Req(SumContext, Ctx(Some("edit"), None), <<"edit">>),
           Req(SumShort, NoContext, <<"edit">>) }

\* A gladiator_observe call in the millisecond of the last record or the
\* next, with the random suffix of the last record
ObserveLimit ==
    \E req \in LimitRequests, now \in {clock, clock + 1} :
        LET out == callObserve(log, req, now, 1) IN
        /\ out.result.outcome = "Recorded" => Len(log) < MaxScoreLog + 1
        /\ log' = out.file
        /\ clock' = IF out.result.outcome = "Recorded" THEN now ELSE clock
        /\ call' = [tool |-> "observe", req |-> req]
        /\ result' = out.result
        /\ UNCHANGED <<clusterIn, clusterOut, servers>>

NextLimit == ReflectLimit \/ ObserveLimit

SpecLimit == InitScore /\ [][NextLimit]_vars

\* ------------------------------------------------------------------------
\* clusterObservations on observations of several artifact types
\* ------------------------------------------------------------------------
VoteTags == { <<"git", "rename">>, <<"git", "history">>, <<"bash">> }

VoteTypes == {"rule", "hook", "skill"}

\* Unprocessed observations recorded with a caller-supplied type, one a millisecond
VoteInputs ==
    UNION {
        { [i \in 1..n |->
              MkObservation([Req(Fresh(i), NoContext, c[i][1])
                                EXCEPT !.artifact_type = Some(c[i][2])], i, 1)] :
            c \in [1..n -> VoteTags \X VoteTypes] } : n \in 1..MaxVoteLen }

InitVote ==
    /\ log = <<>>
    /\ clock = 0
    /\ call = NoCall
    /\ result = NoResult
    /\ clusterIn \in VoteInputs
    /\ clusterOut = <<>>
    /\ servers = NoServers

NextVote == Cluster

SpecVote == InitVote /\ [][NextVote]_vars

\* ------------------------------------------------------------------------
\* Reflect over artifacts whose names meet the tags
\* ------------------------------------------------------------------------
NameRequests ==
    { Req(SumRename, NoContext, <<"Git", "rename">>),
      Req(SumHistory, NoContext, <<"git", "history">>),
      Req(SumQuoting, NoContext, <<"bash", "quoting">>) }

NameLogs ==
    UNION {
        { [i \in 1..n |-> MkObservation(rs[i], i - 1, 1)] :
            rs \in {f \in [1..n -> NameRequests] :
                       \A i, j \in 1..n : i # j => f[i] # f[j]} } :
        n \in 1..MaxScoreLog }

\* A rule whose name has a capital letter, and a hook whose name holds a tag
CapitalDisk ==
    [rules |-> <<File("Git.md", "Prefer git mv for renames")>>,
     hooks |-> <<File("rename-check", "check renames")>>,
     skills |-> <<>>]

\* A skill whose name is held by a tag
ShortNameDisk ==
    [rules |-> <<File("style.md", "prefer short lines")>>,
     hooks |-> <<>>,
     skills |-> <<File("quot", "quote shell arguments")>>]

NameDisks == {EmptyDisk, GitDisk, CapitalDisk, ShortNameDisk}

NameCalls ==
    { [req |-> [query |-> None, limit |-> l], disk |-> d] :
        l \in {None, Some(1)}, d \in NameDisks }

InitName ==
    /\ log \in NameLogs
    /\ clock = Len(log) - 1
    /\ call = NoCall
    /\ result = NoResult
    /\ clusterIn = <<>>
    /\ clusterOut = <<>>
    /\ servers = NoServers

ReflectName == \E c \in NameCalls : ReflectWith(c)

NextName == ReflectName

SpecName == InitName /\ [][NextName]_vars

\* ------------------------------------------------------------------------
\* Observe with and without a caller-supplied artifact type
\* ------------------------------------------------------------------------
\* One summary: once it is recorded, every further request is a duplicate
ClassifyTags ==
    { <<"automate">>, <<"trigger", "review">>, <<"review">>, <<"git">>,
      <<"Pre-Tool">>, <<"hook", "lint">> }

ClassifyRequests ==
    { [Req(s, c, t) EXCEPT !.artifact_type = a] :
        s \in {SumRename},
        c \in {NoContext, Ctx(Some("git log"), Some("git log --follow"))},
        t \in ClassifyTags,
        a \in {None, Some("agent")} }

ObserveClassify ==
    \E req \in ClassifyRequests :
        LET out == callObserve(log, req, clock, 1) IN
        /\ log' = out.file
        /\ call' = [tool |-> "observe", req |-> req]
        /\ result' = out.result
        /\ UNCHANGED <<clock, clusterIn, clusterOut, servers>>

NextClassify == ObserveClassify

SpecClassify == Init /\ [][NextClassify]_vars

\* ------------------------------------------------------------------------
\* Reflect over directories with entries that cannot be read
\* ------------------------------------------------------------------------
\* An entry readFileSync fails on: a subdirectory, a file without read permission
Unreadable(name) == [File(name, "") EXCEPT !.readable = FALSE]

\* A subdirectory of skills that holds no SKILL.md
NoManifest(name) == [File(name, "") EXCEPT !.hasManifest = FALSE]

\* The hooks directory lists a subdirectory before a script
SubdirFirstDisk ==
    [rules |-> <<File("git.md", "Prefer git mv for renames")>>,
     hooks |-> <<Unreadable("lib"), File("lint.sh", "lint before commit")>>,
     skills |-> <<File("review", "review then merge")>>]

\* The hooks directory lists the subdirectory last
SubdirLastDisk ==
    [rules |-> <<File("git.md", "Prefer git mv for renames")>>,
     hooks |-> <<File("lint.sh", "lint before commit"), Unreadable("zlib")>>,
     skills |-> <<File("review", "review then merge")>>]

\* A skill directory without manifest, a hidden hook, a rule that is no .md file
SkippedDisk ==
    [rules |-> <<File("notes.txt", "plain notes"), File("git.md", "Prefer git mv for renames")>>,
     hooks |-> <<File(".keep", ""), File("lint.sh", "lint before commit")>>,
     skills |-> <<NoManifest("drafts"), File("review", "review then merge")>>]

ScanDisks == {EmptyDisk, GitDisk, SubdirFirstDisk, SubdirLastDisk, SkippedDisk}

ScanCalls ==
    { [req |-> [query |-> None, limit |-> l], disk |-> d] :
        l \in {None, Some(1)}, d \in ScanDisks }

ReflectScan == \E c \in ScanCalls : ReflectWith(c)

NextScan == ReflectScan

SpecScan == InitScore /\ [][NextScan]_vars

\* ------------------------------------------------------------------------
\* A server started on a log one line of which was damaged
\* ------------------------------------------------------------------------
\* The record without one of its fields
Without(o, field) == [f \in DOMAIN o \ {field} |-> o[f]]

\* The ways a line is damaged: cut short so that it is no JSON, or a JSON
\* object without summary, or one without tags
Damages == {"text", "nosummary", "notags"}

Damaged(line, damage) ==
    IF damage = "text" THEN [text |-> "{ id: obs_"]
    ELSE IF damage = "nosummary" THEN Without(line, "summary")
    ELSE Without(line, "tags")

\* The log after recording up to MaxScoreLog requests, with one line damaged
CorruptLogs ==
    UNION { { [l EXCEPT ![p] = Damaged(l[p], d)] : p \in 1..Len(l), d \in Damages } :
            l \in ScoreLogs }

InitCorrupt ==
    /\ log \in CorruptLogs
    /\ clock = Len(log) - 1
    /\ call = NoCall
    /\ result = NoResult
    /\ clusterIn = <<>>
    /\ clusterOut = <<>>
    /\ servers = NoServers

CorruptCalls ==
    { [req |-> [query |-> None, limit |-> None], disk |-> EmptyDisk],
      [req |-> [query |-> None, limit |-> Some(1)], disk |-> OneRuleDisk],
      [req |-> [query |-> Some("context"), limit |-> None], disk |-> EmptyDisk] }

ReflectCorrupt == \E c \in CorruptCalls : ReflectWith(c)

\* A gladiator_observe call in the millisecond after the last record
ObserveCorrupt ==
    \E req \in ScoreRequests :
        LET out == callObserve(log, req, clock + 1, 1) IN
        /\ out.result.outcome = "Recorded" => Len(log) < MaxScoreLog + 1
        /\ log' = out.file
        /\ clock' = IF out.result.outcome = "Recorded" THEN clock + 1 ELSE clock
        /\ call' = [tool |-> "observe", req |-> req]
        /\ result' = out.result
        /\ UNCHANGED <<clusterIn, clusterOut, servers>>

NextCorrupt == ReflectCorrupt \/ ObserveCorrupt

SpecCorrupt == InitCorrupt /\ [][NextCorrupt]_vars

\* ------------------------------------------------------------------------
\* Two server processes on one log, without locking: every file system call
\* of a tool call is a step, and steps of the two processes interleave
\* ------------------------------------------------------------------------
Servers == {"A", "B"}

NoObservation == [id |-> ""]

\* A server between two tool calls, with its last response
Idle(response) ==
    [pc |-> "idle", req |-> NoCall, obs |-> NoObservation, seen |-> <<>>, lines |-> <<>>,
     last |-> response]

TwoRequests ==
    { Req(SumContext, NoContext, <<"edit", "disambiguation">>),
      Req(SumImports, NoContext, <<"edit", "imports">>) }

TwoReflect == [query |-> None, limit |-> None]

InitTwo ==
    /\ log = <<>>
    /\ clock = 0
    /\ call = NoCall
    /\ result = NoResult
    /\ clusterIn = <<>>
    /\ clusterOut = <<>>
    /\ servers = [p \in Servers |-> Idle(NoResult)]

\* Records that are or will be appended: every append takes a millisecond of its own
Appending == Cardinality({p \in Servers : servers[p].pc = "append"})

\* gladiator_observe up to the duplicate check (recentHashes reads the log):
\* a request that is not recorded is answered at once
ObserveStart(p) ==
    \E req \in TwoRequests :
        LET out == callObserve(log, req, clock, 1) IN
        /\ servers[p].pc = "idle"
        /\ IF out.result.outcome # "Recorded"
           THEN /\ servers' = [servers EXCEPT ![p] = Idle(out.result)]
                /\ call' = [tool |-> "observe", req |-> req, server |-> p]
                /\ result' = out.result
                /\ UNCHANGED <<log, clock, clusterIn, clusterOut>>
           ELSE /\ clock + Appending < MaxTwoLog
                /\ servers' = [servers EXCEPT ![p].pc = "append", ![p].req = req]
                /\ UNCHANGED <<log, clock, call, result, clusterIn, clusterOut>>

\* appendObservation: appendFileSync of the new record, whose session is
\* the CLAUDE_SESSION_ID of the process
ObserveAppend(p) ==
    LET obs == [MkObservation(servers[p].req, clock + 1, 1) EXCEPT !.session = p] IN
    /\ servers[p].pc = "append"
    /\ log' = appendObservation(log, obs)
    /\ clock' = clock + 1
    /\ servers' = [servers EXCEPT ![p].pc = "respond", ![p].obs = obs]
    /\ UNCHANGED <<call, result, clusterIn, clusterOut>>

\* readObservations() for the Backlog line, and the Recorded response
ObserveRespond(p) ==
    LET response == RecordedResponse(servers[p].obs, readObservations(log, FALSE, 0)) IN
    /\ servers[p].pc = "respond"
    /\ servers' = [servers EXCEPT ![p] = Idle(response)]
    /\ call' = [tool |-> "observe", req |-> servers[p].req, server |-> p]
    /\ result' = response
    /\ UNCHANGED <<log, clock, clusterIn, clusterOut>>

\* gladiator_reflect up to markProcessed: handleReflect reads the log; the
\* stats view is answered at once
ReflectStart(p) ==
    LET out == callReflect(log, TwoReflect, EmptyDisk) IN
    /\ servers[p].pc = "idle"
    /\ IF out.result.outcome # "Reflected"
       THEN /\ servers' = [servers EXCEPT ![p] = Idle(out.result)]
            /\ call' = [tool |-> "reflect", req |-> TwoReflect, disk |-> EmptyDisk, server |-> p]
            /\ result' = out.result
            /\ UNCHANGED <<log, clock, clusterIn, clusterOut>>
       ELSE /\ servers' = [servers EXCEPT ![p].pc = "reflect", ![p].seen = log]
            /\ UNCHANGED <<log, clock, call, result, clusterIn, clusterOut>>

\* markProcessed: readFileSync of the log
MarkRead(p) ==
    /\ servers[p].pc = "reflect"
    /\ servers' = [servers EXCEPT ![p].pc = "mark", ![p].lines = log]
    /\ UNCHANGED <<log, clock, call, result, clusterIn, clusterOut>>

\* markProcessed: writeFileSync of the lines read, the given ids marked; then
\* the response, built from what handleReflect had read
MarkWrite(p) ==
    LET out == callReflect(servers[p].seen, TwoReflect, EmptyDisk) IN
    /\ servers[p].pc = "mark"
    /\ log' = markProcessed(servers[p].lines, LimitedIds(servers[p].seen, DefaultLimit))
    /\ servers' = [servers EXCEPT ![p] = Idle(out.result)]
    /\ call' = [tool |-> "reflect", req |-> TwoReflect, disk |-> EmptyDisk, server |-> p]
    /\ result' = out.result
    /\ UNCHANGED <<clock, clusterIn, clusterOut>>

NextTwo ==
    \E p \in Servers :
        \/ ObserveStart(p)
        \/ ObserveAppend(p)
        \/ ObserveRespond(p)
        \/ ReflectStart(p)
        \/ MarkRead(p)
        \/ MarkWrite(p)

SpecTwo == InitTwo /\ [][NextTwo]_vars

\* ------------------------------------------------------------------------
\* Reflect called again and again on a backlog, with no Observe in between
\* ------------------------------------------------------------------------
DrainCalls ==
    { [req |-> [query |-> None, limit |-> l], disk |-> d] :
        l \in {None, Some(1), Some(2)}, d \in {EmptyDisk, OneRuleDisk} }

ReflectDrain == \E c \in DrainCalls : ReflectWith(c)

NextDrain == ReflectDrain

\* The caller's half of a Reflect step: the request it sends
ReflectCalled ==
    \E c \in DrainCalls : call' = [tool |-> "reflect", req |-> c.req, disk |-> c.disk]

\* The caller goes on sending Reflect requests; the server answers each one
\* within the step (the handler runs to completion, there is no other caller)
SpecDrain == InitScore /\ [][NextDrain]_vars /\ WF_call(ReflectCalled)

\* ------------------------------------------------------------------------
\* Properties
\* ------------------------------------------------------------------------
IsObserve == call'.tool = "observe"
IsReflect == call'.tool = "reflect"

\* The limit a Reflect request resolves to
LimitOf(req) == IF IsSome(req.limit) THEN Get(req.limit) ELSE DefaultLimit

\* Positions of the log inside the deduplication window
WindowPositions(file) == {i \in 1..Len(file) : i > Len(file) - DedupWindow}

SameFlags(before, after) ==
    /\ Len(after) = Len(before)
    /\ \A i \in 1..Len(before) : after[i].processed = before[i].processed

\* C1: after a Reflect call that runs in cluster mode, every observation the
\* call analysed (the last `limit` unprocessed records) is in the log with
\* processed = TRUE, whether its group got action update or create.
C1_AnalysedAreProcessed ==
    [][(IsReflect /\ result'.outcome = "Reflected") =>
        /\ Len(log') = Len(log)
        /\ \A i \in 1..Len(log) :
            (log[i] \in Range(SliceLast(Unprocessed(log), LimitOf(call'.req))))
                => log'[i] = [log[i] EXCEPT !.processed = TRUE]]_vars

C1_Witness ==
    /\ call.tool = "reflect"
    /\ result.outcome = "Reflected"
    /\ result.observations_analyzed = 2
    /\ \E g \in 1..Len(result.groups) : result.groups[g].action = "update"
    /\ \E g \in 1..Len(result.groups) : result.groups[g].action = "create"
    /\ \A i \in 1..Len(log) : log[i].processed

\* C2: once a stored record has processed = TRUE, no Observe or Reflect call
\* makes it FALSE again.
C2_ProcessedIsStable ==
    [][\A i \in 1..Len(log) :
        log[i].processed => (i <= Len(log') /\ log'[i].processed)]_vars

C2_Witness ==
    /\ Len(log) = 2
    /\ log[1].processed
    /\ log[2].processed
    /\ call.tool = "reflect"
    /\ result.outcome = "Reflected"
    /\ result.observations_analyzed = 1
    /\ result.groups[1].observations[1].id = log[2].id

\* C3: a Reflect call without a query on a log with no unprocessed record
\* (the empty log included) leaves the log unchanged and returns the stats
\* view, with unprocessed = 0 and processed = the number of records.
C3_StatsIsPure ==
    [][(IsReflect /\ call'.req.query = None /\ Len(Unprocessed(log)) = 0) =>
        /\ log' = log
        /\ result'.outcome = "Stats"
        /\ result'.unprocessed = 0
        /\ result'.processed = Len(log)
        /\ result'.total_observations = Len(log)]_vars

C3_Witness ==
    /\ call.tool = "reflect"
    /\ call.req.query = None
    /\ result.outcome = "Stats"
    /\ Len(log) = 2
    /\ result.processed = 2

\* C4 (as stated): a Reflect call whose request carries a query, whatever
\* string it is, takes the search path and leaves every processed flag as it was.
C4_AnyQuerySearches ==
    [][(IsReflect /\ IsSome(call'.req.query)) =>
        (result'.outcome = "Found" /\ SameFlags(log, log'))]_vars

\* C4 (amended): a Reflect call whose query is a non-empty string takes the
\* search path and leaves every processed flag as it was.
C4_NonEmptyQuerySearches ==
    [][(IsReflect /\ IsSome(call'.req.query) /\ Get(call'.req.query) # "") =>
        (result'.outcome = "Found" /\ log' = log)]_vars

C4_Witness ==
    /\ call.tool = "reflect"
    /\ IsSome(call.req.query)
    /\ result.outcome = "Found"
    /\ result.matching_observations = 1
    /\ \E i \in 1..Len(log) : ~log[i].processed /\ log[i].id = result.observations[1].id

\* An Observe request that passes validation and the quality gate
PassesGate(req) == ValidObserve(req) /\ ~QualityGateRejects(req)

\* Two summaries that differ only in letter case or surrounding whitespace
CaseSpaceVariants(a, b) == Trim(ToLowerCase(a)) = Trim(ToLowerCase(b))

\* C5: an Observe call that passes validation and the quality gate returns
\* the duplicate outcome exactly when the fingerprint of its summary is the
\* fingerprint of the summary of one of the 100 most recent records; a
\* summary that differs from a record's only in case or surrounding
\* whitespace has that record's fingerprint; tags and context play no part.
C5_DuplicateIffFingerprintInWindow ==
    [][(IsObserve /\ PassesGate(call'.req)) =>
        /\ (result'.outcome = "Duplicate") <=>
              (\E i \in WindowPositions(log) :
                  hashSummary(log[i].summary) = hashSummary(call'.req.summary))
        /\ (\E i \in WindowPositions(log) :
                CaseSpaceVariants(log[i].summary, call'.req.summary))
              => result'.outcome = "Duplicate"]_vars

C5_Witness ==
    /\ call.tool = "observe"
    /\ call.req.summary = SumRetryVariant
    /\ result.outcome = "Duplicate"
    /\ \E i \in WindowPositions(log) : log[i].summary = SumRetry
    /\ \A i \in 1..Len(log) : log[i].summary # SumRetryVariant

\* C6: a summary submitted again while the record that stored it is among
\* the 100 most recent records yields Duplicate; submitted again when exactly
\* 100 records with other, pairwise distinct summaries have been recorded
\* since, it yields Recorded.
C6_WindowEviction ==
    [][(IsObserve /\ PassesGate(call'.req)) =>
        /\ (\E i \in WindowPositions(log) : log[i].summary = call'.req.summary)
              => result'.outcome = "Duplicate"
        /\ \A p \in 1..Len(log) :
              ( /\ log[p].summary = call'.req.summary
                /\ Len(log) - p = DedupWindow
                /\ \A i, j \in (p + 1)..Len(log) :
                      /\ log[i].summary # call'.req.summary
                      /\ (i # j => log[i].summary # log[j].summary) )
              => result'.outcome = "Recorded"]_vars

C6_Witness ==
    /\ call.tool = "observe"
    /\ call.req.summary = SumRetry
    /\ result.outcome = "Recorded"
    /\ Len(log) = DedupWindow + 2
    /\ log[1].summary = SumRetry
    /\ log[Len(log)].summary = SumRetry

\* C7: an Observe call changes the log if and only if it returns Recorded: a
\* call rejected by validation, by the quality gate or as a duplicate leaves
\* the log as it was, and a Recorded call appends exactly one record, with
\* processed = FALSE, after all existing records.
C7_LogChangesIffRecorded ==
    [][IsObserve =>
        /\ result'.outcome \in {"Error", "NeedsBoth", "Duplicate", "Recorded"}
        /\ ~ValidObserve(call'.req) => result'.outcome = "Error"
        /\ result'.outcome # "Recorded" => log' = log
        /\ result'.outcome = "Recorded" =>
              /\ Len(log') = Len(log) + 1
              /\ SubSeq(log', 1, Len(log)) = log
              /\ log'[Len(log')].summary = call'.req.summary
              /\ ~log'[Len(log')].processed]_vars

C7_Witness ==
    /\ call.tool = "observe"
    /\ result.outcome = "Recorded"
    /\ Len(log) = 2
    /\ log[1].processed
    /\ log[2].summary = call.req.summary
    /\ ~log[2].processed

\* C8 (as stated): every valid Observe input with context.before present and
\* context.after absent is rejected with the needs-both outcome, and with
\* both present it is accepted when its summary is not a duplicate.
C8_GateOnPresence ==
    [][(IsObserve /\ ValidObserve(call'.req) /\ IsSome(call'.req.context.before)) =>
        /\ ~IsSome(call'.req.context.after) => result'.outcome = "NeedsBoth"
        /\ (/\ IsSome(call'.req.context.after)
            /\ hashSummary(call'.req.summary) \notin recentHashes(log, DedupWindow))
              => result'.outcome = "Recorded"]_vars

\* C8 (amended): every valid Observe input whose context.before is a
\* non-empty string and whose context.after is absent or empty is rejected
\* with the needs-both outcome, whatever its other fields; with before and
\* after both non-empty it is accepted when its summary is not a duplicate.
C8_GateOnNonEmpty ==
    [][(IsObserve /\ ValidObserve(call'.req) /\ Truthy(call'.req.context.before)) =>
        /\ ~Truthy(call'.req.context.after) =>
              (result'.outcome = "NeedsBoth" /\ log' = log)
        /\ (/\ Truthy(call'.req.context.after)
            /\ hashSummary(call'.req.summary) \notin recentHashes(log, DedupWindow))
              => result'.outcome = "Recorded"]_vars

C8_Witness ==
    /\ call.tool = "observe"
    /\ call.req = FullRequest
    /\ result.outcome = "NeedsBoth"
    /\ hashSummary(call.req.summary) \notin recentHashes(log, DedupWindow)

\* C9: the quality gate is evaluated before deduplication: a request the
\* gate rejects gets the needs-both outcome even when its summary duplicates
\* a stored record, it stores nothing, and a following request with the same
\* summary and both before and after set is Recorded when no record in the
\* window has that fingerprint.
C9_GateBeforeDedup ==
    [][(IsObserve /\ ValidObserve(call'.req)) =>
        /\ QualityGateRejects(call'.req) =>
              (result'.outcome = "NeedsBoth" /\ log' = log)
        /\ (/\ call.tool = "observe"
            /\ result.outcome = "NeedsBoth"
            /\ call'.req.summary = call.req.summary
            /\ Truthy(call'.req.context.before)
            /\ Truthy(call'.req.context.after)
            /\ hashSummary(call'.req.summary) \notin recentHashes(log, DedupWindow))
              => result'.outcome = "Recorded"]_vars

C9_Witness ==
    /\ call.tool = "observe"
    /\ result.outcome = "NeedsBoth"
    /\ QualityGateRejects(call.req)
    /\ hashSummary(call.req.summary) \in recentHashes(log, DedupWindow)

\* |A \cap B| / |A \cup B| > 0.3 on the tag sets themselves
TagJaccardAbove(a, b) ==
    10 * Cardinality(Range(a.tags) \cap Range(b.tags))
        > 3 * Cardinality(Range(a.tags) \cup Range(b.tags))

\* C10: an observation joins a group only if the Jaccard similarity of its
\* tag set and the founding member's tag set is strictly greater than 0.3;
\* of two observations, the second joins the first exactly when the
\* similarity is above 0.3 (not at 3 shared tags out of 10).
C10_JaccardBoundary ==
    call.tool = "cluster" =>
        /\ \A g \in 1..Len(clusterOut) :
              \A k \in 2..Len(clusterOut[g].observations) :
                  TagJaccardAbove(clusterOut[g].observations[k],
                                  clusterOut[g].observations[1])
        /\ Len(clusterIn) = 2 =>
              (Len(clusterOut) = 1 <=> TagJaccardAbove(clusterIn[1], clusterIn[2]))

\* Places (group, position) of the output that hold the observation with this id
PlacesOf(groups, id) ==
    UNION { { <<g, k>> : k \in {j \in 1..Len(groups[g].observations) :
                                    groups[g].observations[j].id = id} } :
            g \in 1..Len(groups) }

RECURSIVE SumSizes(_)
SumSizes(groups) ==
    IF Len(groups) = 0 THEN 0
    ELSE Len(Head(groups).observations) + SumSizes(Tail(groups))

\* C11: clusterObservations partitions its input: every input observation is
\* in exactly one output group, no output group is empty, and the group sizes
\* sum to the length of the input, for tags that are arbitrary strings.
C11_Partition ==
    call.tool = "cluster" =>
        /\ \A i \in 1..Len(clusterIn) :
              Cardinality(PlacesOf(clusterOut, clusterIn[i].id)) = 1
        /\ \A g \in 1..Len(clusterOut) : Len(clusterOut[g].observations) > 0
        /\ SumSizes(clusterOut) = Len(clusterIn)

\* A cluster-mode Reflect call has just returned
ReflectedNow == call.tool = "reflect" /\ result.outcome = "Reflected"

\* df(w): the number of artifacts whose keyword set contains the word
ClaimDf(existing, w) ==
    Cardinality({a \in 1..Len(existing) : w \in Range(existing[a].keywords)})

\* The words that count for an artifact and a group: in both word sets, df(w) <= 0.4 * N
CountedWords(group, artifact, existing) ==
    {w \in GroupWords(group) \cap Range(artifact.keywords) :
        10 * ClaimDf(existing, w) <= 4 * Len(existing)}

\* The score without the name bonus, in units of 1 / unit
KeywordScore(group, artifact, existing, unit) ==
    ArtifactScore(group, artifact, buildCorpusIndex(existing), unit)
        - (IF NameMatch(group, artifact) THEN NameBonus * unit ELSE 0)

\* C12: with N artifacts and df(w) the number of artifacts whose keywords
\* hold w, the keyword part of an artifact's score for a group is the sum of
\* 1/df(w) over the words of the group that are keywords of the artifact and
\* have df(w) <= 0.4 * N; a word with df(w) > 0.4 * N contributes nothing.
C12_IdfKeywordScore ==
    ReflectedNow =>
        LET existing == discoverExistingArtifacts(call.disk)
            unit == LcmUpTo(Len(existing))
        IN \A g \in 1..Len(result.groups), a \in 1..Len(existing) :
              LET counted == CountedWords(result.groups[g], existing[a], existing) IN
              KeywordScore(result.groups[g], existing[a], existing, unit)
                  = SumOver(counted, [w \in counted |-> unit \div ClaimDf(existing, w)])

\* Ten artifacts: "disambiguation", "needs" and "import" are in one of them
\* and count 1 each, "context" is in five and counts 0
C12_Witness ==
    /\ ReflectedNow
    /\ call.disk = TenDisk
    /\ LET existing == discoverExistingArtifacts(call.disk)
           unit == LcmUpTo(Len(existing))
       IN /\ Len(existing) = 10
          /\ ClaimDf(existing, "disambiguation") = 1
          /\ ClaimDf(existing, "context") = 5
          /\ \E g \in 1..Len(result.groups) :
                /\ {"disambiguation", "needs", "import", "context"}
                      \subseteq (GroupWords(result.groups[g]) \cap Range(existing[1].keywords))
                /\ KeywordScore(result.groups[g], existing[1], existing, unit) = 3 * unit
                /\ KeywordScore(result.groups[g], existing[2], existing, unit) * 4 = unit

\* Positions of the artifacts a list of update targets names, by path
TargetIndex(existing, target) ==
    CHOOSE a \in 1..Len(existing) : existing[a].path = target.path

\* Artifacts whose score for the group reaches the threshold
Qualifying(group, existing, unit) ==
    {a \in 1..Len(existing) :
        ArtifactScore(group, existing[a], buildCorpusIndex(existing), unit)
            >= ScoreThreshold * unit}

\* C13: the update targets of a group are existing artifacts that score at
\* least 3.0, in descending order of score, at most 2 of them, as many as
\* qualify up to 2, and no artifact left out scores higher than one listed.
C13_TopTargets ==
    ReflectedNow =>
        LET existing == discoverExistingArtifacts(call.disk)
            unit == LcmUpTo(Len(existing))
            index == buildCorpusIndex(existing)
        IN \A g \in 1..Len(result.groups) :
              LET group == result.groups[g]
                  targets == group.update_targets
                  ok == Qualifying(group, existing, unit)
                  Score(a) == ArtifactScore(group, existing[a], index, unit)
                  listed == {TargetIndex(existing, targets[i]) : i \in 1..Len(targets)}
              IN /\ Len(targets) <= 2
                 /\ Len(targets) = Min(2, Cardinality(ok))
                 /\ Cardinality(listed) = Len(targets)
                 /\ \A i \in 1..Len(targets) :
                       /\ \E a \in 1..Len(existing) : existing[a].path = targets[i].path
                       /\ TargetIndex(existing, targets[i]) \in ok
                 /\ \A i \in 1..(Len(targets) - 1) :
                       Score(TargetIndex(existing, targets[i]))
                           >= Score(TargetIndex(existing, targets[i + 1]))
                 /\ \A a \in ok \ listed : \A b \in listed : Score(a) <= Score(b)

\* Four of ten artifacts qualify for one group; the two listed outscore the
\* first artifact found, which scores exactly 3.0
C13_Witness ==
    /\ ReflectedNow
    /\ call.disk = TenDisk
    /\ LET existing == discoverExistingArtifacts(call.disk)
           unit == LcmUpTo(Len(existing))
       IN \E g \in 1..Len(result.groups) :
             /\ Cardinality(Qualifying(result.groups[g], existing, unit)) = 4
             /\ 1 \in Qualifying(result.groups[g], existing, unit)
             /\ Len(result.groups[g].update_targets) = 2
             /\ result.groups[g].update_targets[1].name = "edit"
             /\ result.groups[g].update_targets[2].name = "edit-check"

\* C14: in a cluster-mode Reflect result a group's action is update exactly
\* when some existing artifact scores at least 3.0 for the group, and create
\* otherwise; each update target is the type, name and path of a matched
\* artifact; with no existing artifact every group is create with no targets.
C14_ActionFollowsScore ==
    ReflectedNow =>
        LET existing == discoverExistingArtifacts(call.disk)
            unit == LcmUpTo(Len(existing))
        IN \A g \in 1..Len(result.groups) :
              LET group == result.groups[g]
                  targets == group.update_targets
              IN /\ group.action \in {"update", "create"}
                 /\ group.action = "update" <=> Qualifying(group, existing, unit) # {}
                 /\ group.action = "update" <=> Len(targets) > 0
                 /\ \A i \in 1..Len(targets) :
                       \E a \in Qualifying(group, existing, unit) :
                           targets[i] = [type |-> existing[a].type, name |-> existing[a].name,
                                         path |-> existing[a].path]
                 /\ Len(existing) = 0 => (group.action = "create" /\ targets = <<>>)

\* One result with a group updated on keywords alone and a group created
C14_Witness ==
    /\ ReflectedNow
    /\ call.disk = ThreeDisk
    /\ Len(result.groups) = 2
    /\ \E g \in 1..Len(result.groups) :
          /\ result.groups[g].action = "update"
          /\ result.groups[g].update_targets =
                <<[type |-> "rule", name |-> "avoid", path |-> "~/.claude/rules/avoid.md"]>>
    /\ \E g \in 1..Len(result.groups) :
          /\ result.groups[g].action = "create"
          /\ result.groups[g].update_targets = <<>>

RareToken == "disambiguation"

RECURSIVE Analysed(_)
Analysed(groups) ==
    IF Len(groups) = 0 THEN <<>>
    ELSE Head(groups).observations \o Analysed(Tail(groups))

\* The scenario: the only artifact is a rule holding the rare token, and a
\* Reflect call with the default limit analysed two observations whose
\* summaries hold the token and whose tags overlap
RareTokenScenario ==
    /\ ReflectedNow
    /\ call.req.limit = None
    /\ LET existing == discoverExistingArtifacts(call.disk)
           obs == Analysed(result.groups)
       IN /\ Len(existing) = 1
          /\ existing[1].type = "rule"
          /\ RareToken \in Range(existing[1].keywords)
          /\ Len(obs) = 2
          /\ \A i \in 1..2 : Includes(obs[i].summary, RareToken)
          /\ TagJaccardAbove(obs[1], obs[2])

\* Both observations are in one group that scores at least 3.0 for the rule
\* and is an update of the rule
UpdatesTheRule ==
    LET existing == discoverExistingArtifacts(call.disk) IN
    /\ Len(result.groups) = 1
    /\ ArtifactScore(result.groups[1], existing[1], buildCorpusIndex(existing), 1)
          >= ScoreThreshold
    /\ result.groups[1].action = "update"
    /\ Len(result.groups[1].update_targets) = 1
    /\ result.groups[1].update_targets[1].path = existing[1].path

\* C15 (as stated): one rule document that holds a rare token, two
\* unprocessed observations whose summaries hold the token and whose tags
\* overlap: Reflect puts both in one group that scores at least 3.0 for the
\* rule and reports update with the rule's path.
C15_RareTokenUpdates == RareTokenScenario => UpdatesTheRule

\* C15 (amended): the same scenario in which, besides, the rule's name
\* contains or is contained in one of the observations' tags in lower case.
C15_NamedRuleUpdates ==
    (/\ RareTokenScenario
     /\ \E g \in 1..Len(result.groups) :
           NameMatch(result.groups[g], discoverExistingArtifacts(call.disk)[1]))
        => UpdatesTheRule

C15_Witness ==
    /\ RareTokenScenario
    /\ call.disk = NamedRuleDisk
    /\ Len(result.groups[1].observations) = 2
    /\ result.groups[1].action = "update"
    /\ result.groups[1].update_targets[1].path = "~/.claude/rules/disambiguation.md"

\* Positions of the log whose record is unprocessed
UnprocessedAt(file) == {i \in 1..Len(file) : ~file[i].processed}

\* The n last positions of a set of positions
LastOf(S, n) == {i \in S : Cardinality({j \in S : j > i}) < n}

\* C16: in cluster mode, for every limit the input schema accepts, Reflect
\* analyses and marks processed at most limit observations, the most recent
\* unprocessed records in log order, and leaves every other record's
\* processed flag as it was (a limit below 0 read as at most none).
C16_AtMostLimit ==
    [][(IsReflect /\ result'.outcome = "Reflected") =>
        LET limit == LimitOf(call'.req)
            n == result'.observations_analyzed
            marked == LastOf(UnprocessedAt(log), n)
        IN /\ n <= Max(limit, 0)
           /\ Len(Analysed(result'.groups)) = n
           /\ \A o \in Range(Analysed(result'.groups)) :
                 \E i \in marked : log[i].id = o.id
           /\ Len(log') = Len(log)
           /\ \A i \in 1..Len(log) :
                 log'[i].processed = (log[i].processed \/ i \in marked)]_vars

\* The k-th largest element of a set of positions
KthLast(S, k) == CHOOSE i \in S : Cardinality({j \in S : j > i}) = k - 1

\* C17: query-mode Reflect returns the stored observations, processed or
\* not, in which the query occurs as a case-insensitive substring of the
\* summary, a tag, the recommendation, context.error, the source or the
\* session reference: the most recent ones first, never more than limit of
\* them (a limit below 0 read as at most none), for every accepted limit.
C17_QueryMostRecentFirst ==
    [][(IsReflect /\ result'.outcome = "Found") =>
        LET q == ToLowerCase(Get(call'.req.query))
            limit == Max(LimitOf(call'.req), 0)
            matches == {i \in 1..Len(log) : QueryMatches(log[i], q)}
            m == Min(limit, Cardinality(matches))
        IN /\ Len(result'.observations) <= limit
           /\ result'.observations =
                 [k \in 1..m |-> summarizeObservation(log[KthLast(matches, k)])]]_vars

\* C18: every Observe call that reaches handleObserve returns one of three
\* outcomes, needs-both, duplicate or recorded; the duplicate outcome carries
\* the fingerprint; the recorded outcome carries the id of the new record,
\* its resolved recommendation and artifact type, and a backlog count equal
\* to the unprocessed records out of all records after the append, at least 1.
C18_ObserveOutcomes ==
    [][(IsObserve /\ ValidObserve(call'.req)) =>
        /\ result'.outcome \in {"NeedsBoth", "Duplicate", "Recorded"}
        /\ result'.outcome = "Duplicate" =>
              result'.hash = hashSummary(call'.req.summary)
        /\ result'.outcome = "Recorded" =>
              LET new == log'[Len(log')]
                  Carries(text) ==
                      \E k \in 1..Len(result'.content) : Includes(result'.content[k], text)
              IN /\ Carries(new.id)
                 /\ Carries(new.recommendation)
                 /\ Carries(new.artifact_type)
                 /\ result'.unprocessed = Len(Unprocessed(log'))
                 /\ result'.total = Len(log')
                 /\ result'.unprocessed >= 1]_vars

\* C19: after any sequence of Observe calls, several within one millisecond
\* included, no two records of the log have the same id.
C19_UniqueIds ==
    \A i, j \in 1..Len(log) : i # j => log[i].id # log[j].id

\* C20: in a single server process the log is append-only: every record
\* stays in the log at its position with every field other than processed
\* as it was appended, and a Reflect call changes only processed flags: it
\* adds, removes and reorders nothing.
C20_AppendOnly ==
    [][/\ Len(log') >= Len(log)
       /\ \A i \in 1..Len(log) :
             i <= Len(log') /\ [log'[i] EXCEPT !.processed = log[i].processed] = log[i]
       /\ IsReflect => Len(log') = Len(log)]_vars

\* A record appended after a Reflect call had consumed the earlier ones, and
\* consumed by a second Reflect call
C20_Witness ==
    /\ ReflectedNow
    /\ Len(log) = 3
    /\ result.observations_analyzed = 1
    /\ \A i \in 1..Len(log) : log[i].processed
    /\ log[1].summary # log[3].summary

\* Greedy first fit measured against the tag set of each group's founder:
\* the groups, in order of creation, as sequences of input positions
RECURSIVE FounderFit(_, _, _)
FounderFit(obs, i, groups) ==
    IF i > Len(obs) THEN groups
    ELSE LET fits == {g \in 1..Len(groups) : TagJaccardAbove(obs[i], obs[groups[g][1]])}
         IN FounderFit(obs, i + 1,
                IF fits = {} THEN Append(groups, <<i>>)
                ELSE LET first == CHOOSE g \in fits : \A h \in fits : g <= h
                     IN [groups EXCEPT ![first] = Append(@, i)])

MemberIds(group) == [k \in 1..Len(group.observations) |-> group.observations[k].id]

\* C22: clustering is greedy first fit in input order: each observation
\* joins the earliest-created group whose founder's tag set has Jaccard
\* similarity above 0.3 with its own tag set, and founds a new group only
\* when no group qualifies; the similarity is measured against the founder.
C22_FirstFitByFounder ==
    call.tool = "cluster" =>
        LET expected == FounderFit(clusterIn, 1, <<>>) IN
        {MemberIds(clusterOut[g]) : g \in 1..Len(clusterOut)}
            = {[k \in 1..Len(expected[g]) |-> clusterIn[expected[g][k]].id] :
                  g \in 1..Len(expected)}

\* C23: every observation with an empty tag list is in a group of size 1:
\* it joins no group and no later observation joins the group it founds.
C23_UntaggedAreSingletons ==
    call.tool = "cluster" =>
        \A i \in 1..Len(clusterIn) :
            Len(clusterIn[i].tags) = 0 =>
                \E g \in 1..Len(clusterOut) : MemberIds(clusterOut[g]) = <<clusterIn[i].id>>

\* C24: a group's artifact_type is a type held by the largest number of its
\* members, and among the types that tie for the largest number the one that
\* occurs first among the members; the group's tags are the union of its
\* members' tags.
C24_MajorityTypeAndTagUnion ==
    call.tool = "cluster" =>
        \A g \in 1..Len(clusterOut) :
            LET members == clusterOut[g].observations
                winner == clusterOut[g].artifact_type
                At(t) == {k \in 1..Len(members) : members[k].artifact_type = t}
                FirstAt(t) == CHOOSE k \in At(t) : \A j \in At(t) : k <= j
            IN /\ At(winner) # {}
               /\ \A k \in 1..Len(members) :
                     LET t == members[k].artifact_type IN
                     /\ Cardinality(At(t)) <= Cardinality(At(winner))
                     /\ Cardinality(At(t)) = Cardinality(At(winner))
                           => FirstAt(winner) <= FirstAt(t)
               /\ Range(clusterOut[g].tags)
                     = UNION {Range(members[k].tags) : k \in 1..Len(members)}

\* A group of three whose first member is outvoted, and whose tags come
\* from members with different tag lists
C24_Witness ==
    /\ call.tool = "cluster"
    /\ Len(clusterOut) = 1
    /\ Len(clusterOut[1].observations) = 3
    /\ clusterOut[1].observations[1].artifact_type = "hook"
    /\ clusterOut[1].observations[2].artifact_type = "rule"
    /\ clusterOut[1].observations[3].artifact_type = "rule"
    /\ clusterOut[1].artifact_type = "rule"
    /\ Range(clusterOut[1].tags) = {"git", "rename", "history"}

\* Some tag of the group is a substring of the artifact's name, or the name
\* is a substring of some tag
TagInNameOrNameInTag(group, artifact) ==
    \E i \in 1..Len(group.tags) :
        \/ Includes(artifact.name, group.tags[i])
        \/ Includes(group.tags[i], artifact.name)

\* C25: an artifact's score for a group is its keyword score plus a flat 5.0,
\* once, exactly when some tag of the group is a substring of the artifact's
\* name or the name is a substring of some tag; a name match alone reaches
\* 3.0, and without name match and shared non-generic keyword the score is 0.
C25_NameBonus ==
    ReflectedNow =>
        LET existing == discoverExistingArtifacts(call.disk)
            unit == LcmUpTo(Len(existing))
            index == buildCorpusIndex(existing)
        IN \A g \in 1..Len(result.groups), a \in 1..Len(existing) :
              LET group == result.groups[g]
                  counted == CountedWords(group, existing[a], existing)
                  keywords == SumOver(counted, [w \in counted |-> unit \div ClaimDf(existing, w)])
                  named == TagInNameOrNameInTag(group, existing[a])
                  score == ArtifactScore(group, existing[a], index, unit)
              IN /\ score = keywords + (IF named THEN NameBonus * unit ELSE 0)
                 /\ named => score >= ScoreThreshold * unit
                 /\ (~named /\ counted = {}) => score = 0

AutomationVocabulary == {"hook", "automate", "trigger", "pre-tool", "post-tool"}
OversightVocabulary == {"agent", "review", "audit"}

\* The type the stated decision order gives a request
StatedType(req) ==
    LET words == {ToLowerCase(req.tags[i]) : i \in 1..Len(req.tags)} IN
    IF IsSome(req.artifact_type) THEN Get(req.artifact_type)
    ELSE IF words \cap AutomationVocabulary # {} THEN "hook"
    ELSE IF words \cap OversightVocabulary # {} THEN "agent"
    ELSE IF IsSome(req.context.before) /\ IsSome(req.context.after) THEN "skill"
    ELSE "rule"

\* C26: without a caller-supplied type the stored type is hook when some tag
\* is a word of the automation vocabulary (hook, automate, trigger, pre-tool,
\* post-tool), else agent when some tag is a word of the oversight vocabulary
\* (agent, review, audit), else skill when context.before and context.after
\* are both present, else rule; a caller-supplied type is stored unchanged.
C26_Classification ==
    (call.tool = "observe" /\ result.outcome = "Recorded") =>
        log[Len(log)].artifact_type = StatedType(call.req)

\* The entries of the three sources that are artifacts and can be read
ReadableEntries(disk) ==
    SelectSeq(disk.rules, LAMBDA e : EndsWith(e.file, ".md") /\ e.readable)
    \o SelectSeq(disk.hooks, LAMBDA e : ~StartsWith(e.file, ".") /\ e.readable)
    \o SelectSeq(disk.skills, LAMBDA e : e.hasManifest /\ e.readable)

\* C27: artifact discovery is best-effort per entry: a missing directory or
\* an entry that cannot be read never makes Reflect fail or skip marking,
\* and every readable entry of the three sources, those listed after an
\* unreadable one included, is returned as an artifact.
C27_DiscoveryPerEntry ==
    (call.tool = "reflect" /\ ~IsSome(call.req.query) /\ result.outcome # "Stats") =>
        /\ ~result.isError
        /\ result.outcome = "Reflected"
        /\ \A g \in 1..Len(result.groups) :
              \A k \in 1..Len(result.groups[g].observations) :
                  \E i \in 1..Len(log) :
                      /\ log[i].id = result.groups[g].observations[k].id
                      /\ log[i].processed
        /\ LET found == discoverExistingArtifacts(call.disk)
               readable == ReadableEntries(call.disk)
           IN /\ result.existing_artifacts_scanned = Len(readable)
              /\ {found[a].keywords : a \in 1..Len(found)}
                    = {extractKeywords(readable[e].content) : e \in 1..Len(readable)}

\* A line that is a complete observation record
WellFormed(line) == Parses(line) /\ HasSummary(line) /\ HasTags(line)

\* C21: a malformed line of the log (no JSON, or JSON that lacks summary or
\* tags) is skipped on read: Observe and Reflect return no error, their
\* outcome is the one computed from the well-formed records, and Reflect
\* leaves the malformed line in the log as it is.
C21_MalformedSkipped ==
    [][LET clean == SelectSeq(log, WellFormed) IN
       /\ IsObserve =>
             /\ ~result'.isError
             /\ result'.outcome = callObserve(clean, call'.req, clock + 1, 1).result.outcome
       /\ IsReflect =>
             /\ ~result'.isError
             /\ result'.outcome = callReflect(clean, call'.req, call'.disk).result.outcome
             /\ Len(log') = Len(log)
             /\ \A i \in 1..Len(log) : ~WellFormed(log[i]) => log'[i] = log[i]]_vars

\* C30: a Reflect call that ends in an error-flagged response has changed
\* no record's processed flag.
C30_ErrorLeavesLog ==
    [][(IsReflect /\ result'.isError) => log' = log]_vars

\* The record is in the log no more after the step
Lost(rec) == \A j \in 1..Len(log') : log'[j].id # rec.id

\* C28: two server processes on one log interleave unsafely: a record one
\* process appended, and reported Recorded, is lost when the other process
\* appends it between the read and the rewrite of the log in markProcessed;
\* a record is lost in no other way, and never by the process that
\* appended it, whose tool calls run one after the other.
C28_LostOnlyBetweenReadAndRewrite ==
    [][\A i \in 1..Len(log) :
          Lost(log[i]) =>
              \E p \in Servers :
                  /\ servers[p].pc = "mark"
                  /\ servers'[p].pc = "idle"
                  /\ log[i].session # p
                  /\ \A k \in 1..Len(servers[p].lines) : servers[p].lines[k].id # log[i].id]_vars

\* Server B has answered Recorded and A has answered Reflected, and the log
\* holds no record of B
C28_Witness ==
    /\ servers["B"].pc = "idle"
    /\ servers["B"].last.outcome = "Recorded"
    /\ servers["A"].pc = "idle"
    /\ servers["A"].last.outcome = "Reflected"
    /\ Len(log) > 0
    /\ \A i \in 1..Len(log) : log[i].session = "A" /\ log[i].processed

AllProcessed == \A i \in 1..Len(log) : log[i].processed

\* C29: with no further Observe, every Reflect call without query and with a
\* positive limit marks at least one observation while any is unprocessed;
\* after finitely many calls every record is processed, and from then on
\* every Reflect call returns the stats view.
C29_BacklogDrains ==
    /\ [][(IsReflect /\ ~AllProcessed) =>
             /\ result'.outcome = "Reflected"
             /\ Len(Unprocessed(log')) < Len(Unprocessed(log))]_vars
    /\ <>[]AllProcessed
    /\ [][(IsReflect /\ AllProcessed) => (result'.outcome = "Stats" /\ log' = log)]_vars

\* Two records were consumed one call at a time, and the next call shows the stats
C29_Witness ==
    /\ call.tool = "reflect"
    /\ call.req.limit = Some(1)
    /\ result.outcome = "Stats"
    /\ result.total_observations = 2
    /\ Len(log) = 2
    /\ AllProcessed

====
